---- MODULE Spec2Model ----
(***************************************************************************)
(* A model of the static-preprocessing pipeline (src/src/lib.rs and        *)
(* src/src/hash.rs): the directory walk, load, CSS minification, content   *)
(* hashing/renaming, output writing and manifest accumulation.             *)
(*                                                                         *)
(* Representation of text.  A file name is the sequence of its maximal     *)
(* dot-free segments: "main.css" is <<"main", "css">>, "README" is         *)
(* <<"README">>, ".bashrc" is <<"", "bashrc">> and "a." is <<"a", "">>.    *)
(* A path is the sequence of its components (names), so "css/main.css" is  *)
(* <<<<"css">>, <<"main", "css">>>>.  Since a segment holds neither '.'    *)
(* nor '/', a path and the string that spells it determine each other.     *)
(* File contents are byte strings, written as TLA+ strings.                *)
(***************************************************************************)
EXTENDS Naturals, Sequences, FiniteSets, TLC

VARIABLES
    infs,          \* the input tree: path -> [kind, contents]
    root,          \* input_dir, the path handed to process_directory
    pc,            \* position inside process_directory / process_file
    stack,         \* for_each_file's recursion: frames [dir, remaining]
    call,          \* the path of a pending for_each_file call (Some), or None
    cur,           \* process_file's `path`
    file,          \* the File being piped through process_file
    manifest,      \* the HashMap accumulator of process_directory
    outdir,        \* whether output_dir exists (create_dir_all succeeded)
    outfs,         \* files written under output_dir: name -> bytes
    manifestFile,  \* manifest.json as written by this run, or NoManifest
    result,        \* what process_directory returned, or Running
    called,        \* history: the paths the walker's callback was invoked on
    saved,         \* history: the paths whose save_file succeeded
    failedAt,      \* history: the step that failed, or "none"
    fnpc,          \* harness for single functions: "idle", "call" or "ret"
    fncall,        \* harness: the function applied and its argument
    fnret          \* harness: the value it returned

vars == <<infs, root, pc, stack, call, cur, file, manifest, outdir, outfs,
          manifestFile, result, called, saved, failedAt, fnpc, fncall, fnret>>

runVars == <<infs, root, pc, stack, call, cur, file, manifest, outdir, outfs,
             manifestFile, result, called, saved, failedAt>>

fnVars == <<fnpc, fncall, fnret>>

---------------------------------------------------------------------------
(* Option and Result values                                                *)

None == [some |-> FALSE]
Some(v) == [some |-> TRUE, v |-> v]

Ok(v) == [ok |-> TRUE, val |-> v]
Err(e) == [ok |-> FALSE, err |-> e]

\* StaticPreprocessingError: the variant (kind) and the wrapped message/cause.
IOError(cause) == [kind |-> "IOError", detail |-> cause]
ParsingError(msg) == [kind |-> "ParsingError", detail |-> msg]
MinificationError(msg) == [kind |-> "MinificationError", detail |-> msg]

ErrorKinds ==
    {"IOError", "ParsingError", "MinificationError", "HashError", "ImageProcessingError"}

FileTypes == {"Image", "CSS", "JS", "Other"}

---------------------------------------------------------------------------
(* std::path and OsStr                                                     *)

\* Segments whose bytes are not valid UTF-8 (possible in Unix file names).
NonUtf8 == {"<FF>", "<FE>"}

\* U+FFFD, what a lossy conversion puts in place of invalid bytes.
ReplacementChar == "<U+FFFD>"

\* OsStr::to_str: None unless the bytes are valid UTF-8.
to_str(seg) == IF seg \in NonUtf8 THEN None ELSE Some(seg)

\* OsStr::to_string_lossy on one name.
to_string_lossy(name) ==
    [i \in DOMAIN name |-> IF name[i] \in NonUtf8 THEN ReplacementChar ELSE name[i]]

\* Path::to_string_lossy: the path as a string, component by component.
path_to_string_lossy(path) == [i \in DOMAIN path |-> to_string_lossy(path[i])]

\* Path::file_name: the final component, None for the empty path.
file_name(path) == IF Len(path) = 0 THEN None ELSE Some(path[Len(path)])

\* Path::extension: the part of the file name after its last '.', None when
\* there is no '.' or when the only '.' is the leading character.
extension(path) ==
    LET fname == file_name(path) IN
    IF ~fname.some THEN None
    ELSE LET n == fname.v IN
         IF Len(n) < 2 THEN None
         ELSE IF Len(n) = 2 /\ n[1] = "" THEN None
         ELSE Some(n[Len(n)])

\* path.extension().and_then(|ext| ext.to_str())
extension_str(path) ==
    LET e == extension(path) IN IF e.some THEN to_str(e.v) ELSE None

\* Path::parent: the path without its final component, None for the empty path.
parent(path) == IF Len(path) = 0 THEN None ELSE Some(SubSeq(path, 1, Len(path) - 1))

---------------------------------------------------------------------------
(* The external collaborators, as tables over the byte strings of the model *)

CssRaw == "body { margin: 0; }"
CssMin == "body{margin:0}"
CssRed == "body { color: red; }  /* comment */"
CssRedMin == "body{color:red}"
BadUtf8 == "<C3 28>"
BadSyntax == "body { margin: 0; "
BadMinify == "<css the minifier rejects>"
BadPrint == "<css the printer rejects>"
PlainText == "Hello, world!"
Empty == ""

Contents ==
    {CssRaw, CssMin, CssRed, CssRedMin, BadUtf8, BadSyntax, BadMinify, BadPrint,
     PlainText, Empty}

\* std::str::from_utf8 succeeds.
from_utf8_ok(bytes) == bytes # BadUtf8

\* StyleSheet::parse succeeds on the text.
parse_ok(text) == text \notin {BadSyntax, PlainText}

\* StyleSheet::minify succeeds on the parsed sheet.
minify_ok(text) == text # BadMinify

\* StyleSheet::to_css succeeds on the minified sheet.
to_css_ok(text) == text # BadPrint

\* The code printed by to_css with minify: true.
to_css_code(text) ==
    CASE text = CssRaw -> CssMin
      [] text = CssRed -> CssRedMin
      [] OTHER -> text

\* blake3::hash(bytes).to_string(): the digest in lowercase hex.  The two
\* digests the tests of hash.rs state are spelled out; the others are named.
\* Distinct contents have distinct digests (no collision in the model).
blake3_hex(bytes) ==
    CASE bytes = CssRaw ->
           "057b37e61c8ec35690e7c0c321591990d37b9bdbef645cd780795a95672d65c0"
      [] bytes = Empty ->
           "af1349b9f5f9a1a6a0404dea36dcc9499bcb25c9adc112b7cc9a93cae41f3262"
      [] bytes = CssMin -> "d1"
      [] bytes = CssRed -> "d2"
      [] bytes = CssRedMin -> "d3"
      [] bytes = BadUtf8 -> "d4"
      [] bytes = BadSyntax -> "d5"
      [] bytes = BadMinify -> "d6"
      [] bytes = BadPrint -> "d7"
      [] bytes = PlainText -> "d8"

---------------------------------------------------------------------------
(* The functions of the crate                                              *)

\* A variant that matches the extension without regard to case.
detect_file_type_ignore_case(ext) ==
    CASE ext \in {"css", "CSS", "Css"} -> "CSS"
      [] ext \in {"js", "JS", "Js"} -> "JS"
      [] ext \in {"webp", "jpg", "jpeg", "png", "avif",
                  "WEBP", "JPG", "JPEG", "PNG", "AVIF", "Png"} -> "Image"
      [] OTHER -> "Other"

detect_file_type(ext) ==
    CASE ext = "css" -> "CSS"
      [] ext = "js" -> "JS"
      [] ext \in {"webp", "jpg", "jpeg", "png", "avif"} -> "Image"
      [] OTHER -> "Other"

\* A variant that classifies a path without extension as Other.
load_file_other_without_extension(path, read) ==
    LET fname == file_name(path)
        ext == extension_str(path)
    IN  IF ~fname.some THEN Err(IOError("InvalidInput"))
        ELSE IF ~read.ok THEN Err(IOError(read.err))
        ELSE Ok([filename |-> <<to_string_lossy(fname.v)>>,
                 file_type |-> IF ext.some THEN detect_file_type(ext.v) ELSE "Other",
                 contents |-> read.val])

\* load_file(path), with `read` the outcome of fs::read(path).  The fields are
\* evaluated in the order filename, file_type, contents.
load_file(path, read) ==
    LET fname == file_name(path)
        ext == extension_str(path)
    IN  IF ~fname.some THEN Err(IOError("InvalidInput"))
        ELSE IF ~ext.some THEN Err(IOError("InvalidInput"))
        ELSE IF ~read.ok THEN Err(IOError(read.err))
        ELSE Ok([filename |-> <<to_string_lossy(fname.v)>>,
                 file_type |-> detect_file_type(ext.v),
                 contents |-> read.val])

\* A variant that returns the File it was given instead of the printed code.
minify_css_keeps_contents(f) ==
    IF f.file_type # "CSS" THEN Ok(f)
    ELSE IF ~from_utf8_ok(f.contents) THEN Err(ParsingError("invalid utf-8"))
    ELSE IF ~parse_ok(f.contents) THEN Err(ParsingError("syntax"))
    ELSE IF ~minify_ok(f.contents) THEN Err(MinificationError("minify"))
    ELSE IF ~to_css_ok(f.contents) THEN Err(MinificationError("printer"))
    ELSE Ok(f)

\* A variant that decides by the extension of the filename, not by file_type.
minify_css_by_extension(f) ==
    IF extension_str(f.filename) # Some("css") THEN Ok(f)
    ELSE IF ~from_utf8_ok(f.contents) THEN Err(ParsingError("invalid utf-8"))
    ELSE IF ~parse_ok(f.contents) THEN Err(ParsingError("syntax"))
    ELSE IF ~minify_ok(f.contents) THEN Err(MinificationError("minify"))
    ELSE IF ~to_css_ok(f.contents) THEN Err(MinificationError("printer"))
    ELSE Ok([f EXCEPT !.contents = to_css_code(f.contents)])

\* A variant that reports invalid UTF-8 as an I/O error.
minify_css_utf8_as_io_error(f) ==
    IF f.file_type # "CSS" THEN Ok(f)
    ELSE IF ~from_utf8_ok(f.contents) THEN Err(IOError("InvalidData"))
    ELSE IF ~parse_ok(f.contents) THEN Err(ParsingError("syntax"))
    ELSE IF ~minify_ok(f.contents) THEN Err(MinificationError("minify"))
    ELSE IF ~to_css_ok(f.contents) THEN Err(MinificationError("printer"))
    ELSE Ok([f EXCEPT !.contents = to_css_code(f.contents)])

minify_css(f) ==
    IF f.file_type # "CSS" THEN Ok(f)
    ELSE IF ~from_utf8_ok(f.contents) THEN Err(ParsingError("invalid utf-8"))
    ELSE IF ~parse_ok(f.contents) THEN Err(ParsingError("syntax"))
    ELSE IF ~minify_ok(f.contents) THEN Err(MinificationError("minify"))
    ELSE IF ~to_css_ok(f.contents) THEN Err(MinificationError("printer"))
    ELSE Ok([f EXCEPT !.contents = to_css_code(f.contents)])

\* A variant that names the file by the digest alone.
hash_file_rename_drops_extension(f) ==
    LET ext == extension_str(f.filename)
        par == parent(f.filename)
    IN  IF ~ext.some THEN Err(IOError("InvalidInput"))
        ELSE IF ~par.some THEN Err(IOError("InvalidInput"))
        ELSE Ok([f EXCEPT !.filename = Append(par.v, <<blake3_hex(f.contents)>>)])

\* hash_file_rename(file).  hash.rs names the path field relative_path, lib.rs
\* names it filename; the io::Error it returns becomes LibError::IOError at the
\* `?` of process_file.
hash_file_rename(f) ==
    LET ext == extension_str(f.filename)
        par == parent(f.filename)
    IN  IF ~ext.some THEN Err(IOError("InvalidInput"))
        ELSE IF ~par.some THEN Err(IOError("InvalidInput"))
        ELSE Ok([f EXCEPT !.filename =
                     Append(par.v, <<blake3_hex(f.contents), ext.v>>)])

---------------------------------------------------------------------------
(* The input trees of the model                                            *)

\* The most files an input tree holds, and the most nested sub-directories.
MaxFiles == 2
MaxDepth == 1

RootDir == <<"site">>
SubDir == <<"sub">>

\* Names a file of the tree may bear: a stylesheet, a file without extension,
\* and two names that differ only in bytes that are not valid UTF-8.
FileNames == {<<"main", "css">>, <<"README">>, <<"<FF>", "txt">>, <<"<FE>", "txt">>}

\* Contents a file of the tree may hold.
TreeContents == {CssRaw, CssMin, BadUtf8}

\* The chain of directories root, root/sub, root/sub/sub, ... with d levels below root.
RECURSIVE DirAt(_)
DirAt(k) == IF k = 0 THEN <<RootDir>> ELSE Append(DirAt(k - 1), SubDir)

DirChain(d) == {DirAt(k) : k \in 0..d}

FileCandidates(d) == {Append(dir, n) : dir \in DirChain(d), n \in FileNames}

DirNode == [kind |-> "dir", contents |-> ""]
FileNode(bytes) == [kind |-> "file", contents |-> bytes]

\* A tree with the directories dirs and the files of DOMAIN c holding c.
MkTree(dirs, c) ==
    [p \in dirs \cup DOMAIN c |-> IF p \in dirs THEN DirNode ELSE FileNode(c[p])]

EmptyMap == [x \in {} |-> x]

\* HashMap::insert and the effect of fs::write on a directory listing.
Insert(m, k, v) == [x \in DOMAIN m \cup {k} |-> IF x = k THEN v ELSE m[x]]

---------------------------------------------------------------------------
(* State of a run of process_directory                                     *)

NoError == [kind |-> "none", detail |-> "none"]
Running == [returned |-> FALSE, ok |-> FALSE, err |-> NoError]
ReturnedOk == [returned |-> TRUE, ok |-> TRUE, err |-> NoError]
ReturnedErr(e) == [returned |-> TRUE, ok |-> FALSE, err |-> e]

NoFile == [filename |-> <<>>, file_type |-> "Other", contents |-> ""]

NoManifest == [written |-> "no", map |-> EmptyMap]
PartialManifest == [written |-> "partial", map |-> EmptyMap]
WrittenManifest(m) == [written |-> "yes", map |-> m]

\* Bytes left in a file whose fs::write failed after creating or truncating it.
PartialBytes == "<partial write>"

IdleCall == [fn |-> "none"]

\* Nothing has been walked, written or returned.
RunFresh ==
    /\ stack = <<>>
    /\ call = None
    /\ cur = <<>>
    /\ file = NoFile
    /\ manifest = EmptyMap
    /\ outdir = FALSE
    /\ outfs = EmptyMap
    /\ manifestFile = NoManifest
    /\ result = Running
    /\ called = <<>>
    /\ saved = {}
    /\ failedAt = "none"

\* process_directory has just been called.
RunStart == pc = "start" /\ RunFresh

\* No run of process_directory is in progress.
RunIdle == pc = "none" /\ RunFresh

FnIdle ==
    /\ fnpc = "idle"
    /\ fncall = IdleCall
    /\ fnret = "none"

\* input_dir is a directory holding at most MaxFiles files,
InitDirRoot ==
    \E d \in 0..MaxDepth :
      \E S \in SUBSET FileCandidates(d) :
        /\ Cardinality(S) <= MaxFiles
        /\ \E c \in [S -> TreeContents] : infs = MkTree(DirChain(d), c)
        /\ root = <<RootDir>>

\* or a regular file,
InitFileRoot ==
    \E n \in {<<"site">>, <<"site", "css">>, <<"site", "txt">>} :
      \E bytes \in TreeContents :
        /\ root = <<n>>
        /\ infs = MkTree({}, [p \in {<<n>>} |-> bytes])

\* or it does not exist.
InitMissingRoot ==
    /\ root \in {<<RootDir>>, <<<<"site", "css">>>>}
    /\ infs = EmptyMap

Init ==
    /\ InitDirRoot \/ InitFileRoot \/ InitMissingRoot
    /\ RunStart
    /\ FnIdle

---------------------------------------------------------------------------
(* The file system as the run sees it                                      *)

\* Path::is_dir
is_dir(p) == p \in DOMAIN infs /\ infs[p].kind = "dir"

\* The entries fs::read_dir(p) yields, in no particular order.
Children(p) == {q \in DOMAIN infs : Len(q) = Len(p) + 1 /\ SubSeq(q, 1, Len(p)) = p}

\* What fs::read(p) may return.
ReadOutcomes(p) ==
    IF p \in DOMAIN infs /\ infs[p].kind = "file"
    THEN {Ok(infs[p].contents), Err("PermissionDenied")}
    ELSE {Err("NotFound")}

\* The regular files under the input root (the root itself when it is a file).
RegularFiles == {p \in DOMAIN infs : infs[p].kind = "file"}

---------------------------------------------------------------------------
(* process_directory, step by step                                         *)

\* A variant that drops the error of the walk and goes on to write_manifest.
on_walk_error_ignored(e) == [pc |-> "manifest", result |-> Running]

\* `for_each_file(..)?` in process_directory: an error of the walk or of the
\* callback is returned at once, before write_manifest.
on_walk_error(e) == [pc |-> "done", result |-> ReturnedErr(e)]

\* A variant in which the enclosing level of for_each_file drops the error of
\* the level below and goes on with its loop.
Fail_dropped_by_enclosing_level(e, step) ==
    /\ failedAt' = step
    /\ call' = None
    /\ IF stack = <<>>
       THEN /\ pc' = on_walk_error(e).pc
            /\ result' = on_walk_error(e).result
            /\ stack' = stack
       ELSE /\ pc' = "walk"
            /\ result' = result
            /\ stack' = stack

\* An error raised at `step` inside the walk unwinds every level of for_each_file.
Fail(e, step) ==
    /\ pc' = on_walk_error(e).pc
    /\ result' = on_walk_error(e).result
    /\ stack' = <<>>
    /\ call' = None
    /\ failedAt' = step

\* A variant that strips the input root from the key.
manifest_key_root_relative(path) == path_to_string_lossy(SubSeq(path, 2, Len(path)))

\* The key process_file inserts for `path`.
manifest_key(path) == path_to_string_lossy(path)

\* fs::create_dir_all(output_dir)?; let mut manifest = HashMap::new();
\* then the call for_each_file(input_dir, ..).
CreateDirAll ==
    /\ pc = "start"
    /\ \/ /\ outdir' = TRUE
          /\ manifest' = EmptyMap
          /\ pc' = "walk"
          /\ call' = Some(root)
          /\ UNCHANGED <<result, failedAt>>
       \/ /\ result' = ReturnedErr(IOError("create_dir_all"))
          /\ pc' = "done"
          /\ failedAt' = "create_dir_all"
          /\ UNCHANGED <<outdir, manifest, call>>
    /\ UNCHANGED <<infs, root, stack, cur, file, outfs, manifestFile, called, saved>>
    /\ UNCHANGED fnVars

\* for_each_file(path, f) when path.is_dir(): fs::read_dir(path)?
ForEachFileDir ==
    /\ pc = "walk"
    /\ call.some
    /\ is_dir(call.v)
    /\ \/ /\ stack' = Append(stack, [dir |-> call.v, remaining |-> Children(call.v)])
          /\ call' = None
          /\ UNCHANGED <<pc, result, failedAt>>
       \/ Fail(IOError("read_dir"), "read_dir")
    /\ UNCHANGED <<infs, root, cur, file, manifest, outdir, outfs, manifestFile,
                   called, saved>>
    /\ UNCHANGED fnVars

\* A variant of the walker that rejects a root that is not a directory.
ForEachFileRejectsRoot ==
    /\ pc = "walk"
    /\ call.some
    /\ ~is_dir(call.v)
    /\ IF call.v = root
       THEN /\ Fail(IOError("not a directory"), "read_dir")
            /\ UNCHANGED <<called, cur>>
       ELSE /\ called' = Append(called, call.v)
            /\ cur' = call.v
            /\ pc' = "load"
            /\ call' = None
            /\ UNCHANGED <<stack, result, failedAt>>
    /\ UNCHANGED <<infs, root, file, manifest, outdir, outfs, manifestFile, saved>>
    /\ UNCHANGED fnVars

\* for_each_file(path, f) otherwise: f(path), that is process_file(path, ..).
ForEachFileCallback ==
    /\ pc = "walk"
    /\ call.some
    /\ ~is_dir(call.v)
    /\ called' = Append(called, call.v)
    /\ cur' = call.v
    /\ pc' = "load"
    /\ call' = None
    /\ UNCHANGED <<infs, root, stack, file, manifest, outdir, outfs, manifestFile,
                   result, saved, failedAt>>
    /\ UNCHANGED fnVars

\* One turn of `for entry in fs::read_dir(path)?`: the next entry, in whatever
\* order the directory yields them, `entry?`, and for_each_file(&entry.path(), f).
NextEntry ==
    /\ pc = "walk"
    /\ ~call.some
    /\ stack # <<>>
    /\ LET top == stack[Len(stack)] IN
       \/ \E e \in top.remaining :
            /\ stack' = [stack EXCEPT ![Len(stack)].remaining = top.remaining \ {e}]
            /\ call' = Some(e)
            /\ UNCHANGED <<pc, result, failedAt>>
       \/ Fail(IOError("read_dir entry"), "read_dir entry")
    /\ UNCHANGED <<infs, root, cur, file, manifest, outdir, outfs, manifestFile,
                   called, saved>>
    /\ UNCHANGED fnVars

\* The loop is exhausted: this level of for_each_file returns Ok(()).
DirDone ==
    /\ pc = "walk"
    /\ ~call.some
    /\ stack # <<>>
    /\ stack[Len(stack)].remaining = {}
    /\ stack' = SubSeq(stack, 1, Len(stack) - 1)
    /\ UNCHANGED <<infs, root, pc, call, cur, file, manifest, outdir, outfs,
                   manifestFile, result, called, saved, failedAt>>
    /\ UNCHANGED fnVars

\* The outermost for_each_file returned Ok(()): on to write_manifest.
WalkDone ==
    /\ pc = "walk"
    /\ ~call.some
    /\ stack = <<>>
    /\ pc' = "manifest"
    /\ UNCHANGED <<infs, root, stack, call, cur, file, manifest, outdir, outfs,
                   manifestFile, result, called, saved, failedAt>>
    /\ UNCHANGED fnVars

\* let input_file = load_file(path)?;
LoadFile ==
    /\ pc = "load"
    /\ \E read \in ReadOutcomes(cur) :
         LET r == load_file(cur, read) IN
         IF r.ok
         THEN /\ file' = r.val
              /\ pc' = "minify"
              /\ UNCHANGED <<stack, call, result, failedAt>>
         ELSE /\ Fail(r.err, "load")
              /\ UNCHANGED file
    /\ UNCHANGED <<infs, root, cur, manifest, outdir, outfs, manifestFile, called, saved>>
    /\ UNCHANGED fnVars

\* let minified_css = minify_css(input_file); ... minified_css?
MinifyCss ==
    /\ pc = "minify"
    /\ LET r == minify_css(file) IN
       IF r.ok
       THEN /\ file' = r.val
            /\ pc' = "hash"
            /\ UNCHANGED <<stack, call, result, failedAt>>
       ELSE /\ Fail(r.err, "transform")
            /\ UNCHANGED file
    /\ UNCHANGED <<infs, root, cur, manifest, outdir, outfs, manifestFile, called, saved>>
    /\ UNCHANGED fnVars

\* let hashed_file = hash_file_rename(..)?;
HashFileRename ==
    /\ pc = "hash"
    /\ LET r == hash_file_rename(file) IN
       IF r.ok
       THEN /\ file' = r.val
            /\ pc' = "insert"
            /\ UNCHANGED <<stack, call, result, failedAt>>
       ELSE /\ Fail(r.err, "hash")
            /\ UNCHANGED file
    /\ UNCHANGED <<infs, root, cur, manifest, outdir, outfs, manifestFile, called, saved>>
    /\ UNCHANGED fnVars

\* manifest.insert(path.to_string_lossy().to_string(), hashed_file.filename.clone());
ManifestInsert ==
    /\ pc = "insert"
    /\ manifest' = Insert(manifest, manifest_key(cur), file.filename)
    /\ pc' = "save"
    /\ UNCHANGED <<infs, root, stack, call, cur, file, outdir, outfs, manifestFile,
                   result, called, saved, failedAt>>
    /\ UNCHANGED fnVars

\* save_file(output_dir, &hashed_file): fs::write(output_dir.join(filename), contents).
\* A failed write leaves the destination absent, as it was, or partly written.
SaveFile ==
    /\ pc = "save"
    /\ \/ /\ outfs' = Insert(outfs, file.filename, file.contents)
          /\ saved' = saved \cup {cur}
          /\ pc' = "walk"
          /\ UNCHANGED <<stack, call, result, failedAt>>
       \/ /\ Fail(IOError("write"), "write")
          /\ outfs' \in {outfs, Insert(outfs, file.filename, PartialBytes)}
          /\ UNCHANGED saved
    /\ UNCHANGED <<infs, root, cur, file, manifest, outdir, manifestFile, called>>
    /\ UNCHANGED fnVars

\* write_manifest(output_dir, &manifest)?; Ok(())
WriteManifest ==
    /\ pc = "manifest"
    /\ \/ /\ manifestFile' = WrittenManifest(manifest)
          /\ result' = ReturnedOk
          /\ UNCHANGED failedAt
       \/ /\ manifestFile' \in {NoManifest, PartialManifest}
          /\ result' = ReturnedErr(IOError("write manifest"))
          /\ failedAt' = "write_manifest"
    /\ pc' = "done"
    /\ UNCHANGED <<infs, root, stack, call, cur, file, manifest, outdir, outfs,
                   called, saved>>
    /\ UNCHANGED fnVars

Next ==
    \/ CreateDirAll
    \/ ForEachFileDir
    \/ ForEachFileCallback
    \/ NextEntry
    \/ DirDone
    \/ WalkDone
    \/ LoadFile
    \/ MinifyCss
    \/ HashFileRename
    \/ ManifestInsert
    \/ SaveFile
    \/ WriteManifest

Spec == Init /\ [][Next]_vars

---------------------------------------------------------------------------
(* The functions of the crate applied on their own, to arguments a caller  *)
(* may pass that no run of process_directory produces                      *)

\* Extension strings handed to detect_file_type: the recognised ones, their
\* upper- and mixed-case spellings, the ones of test_detect_file_type_negative
\* and the empty string.
ExtStrings ==
    {"css", "js", "webp", "jpg", "jpeg", "png", "avif",
     "CSS", "JS", "WEBP", "JPG", "JPEG", "PNG", "AVIF", "Css", "Js", "Png",
     "gif", "tiff", "docx", "thing", "stl", "a", "file", "txt", ""}

\* Paths handed to load_file and held by the Files handed to the other functions.
FnPaths ==
    {<<>>,
     <<<<"main", "css">>>>,
     <<<<"css">>, <<"main", "css">>>>,
     <<<<"css">>, <<"main">>>>,
     <<<<"assets">>, <<"css">>, <<"other", "css">>>>,
     <<<<"example", "txt">>>>,
     <<<<"logo", "png">>>>,
     <<<<"app", "js">>>>,
     <<<<"STYLE", "CSS">>>>,
     <<<<"", "bashrc">>>>,
     <<<<"a", "">>>>,
     <<<<"a", "tar", "gz">>>>,
     <<<<"a", "<FF>">>>>,
     <<<<"<FF>", "css">>>>}

Files == [filename : FnPaths, file_type : FileTypes, contents : Contents]

FnCalls ==
    [fn : {"detect_file_type"}, ext : ExtStrings]
    \cup [fn : {"load_file"}, path : FnPaths,
          read : {Ok(c) : c \in {CssRaw, PlainText}} \cup {Err("NotFound")}]
    \cup [fn : {"minify_css", "hash_file_rename"}, f : Files]

InitFn ==
    /\ fnpc = "call"
    /\ fncall \in FnCalls
    /\ fnret = "none"
    /\ infs = EmptyMap
    /\ root = <<>>
    /\ RunIdle

CallDetectFileType ==
    /\ fnpc = "call"
    /\ fncall.fn = "detect_file_type"
    /\ fnret' = detect_file_type(fncall.ext)
    /\ fnpc' = "ret"
    /\ UNCHANGED <<fncall, runVars>>

CallLoadFile ==
    /\ fnpc = "call"
    /\ fncall.fn = "load_file"
    /\ fnret' = load_file(fncall.path, fncall.read)
    /\ fnpc' = "ret"
    /\ UNCHANGED <<fncall, runVars>>

CallMinifyCss ==
    /\ fnpc = "call"
    /\ fncall.fn = "minify_css"
    /\ fnret' = minify_css(fncall.f)
    /\ fnpc' = "ret"
    /\ UNCHANGED <<fncall, runVars>>

CallHashFileRename ==
    /\ fnpc = "call"
    /\ fncall.fn = "hash_file_rename"
    /\ fnret' = hash_file_rename(fncall.f)
    /\ fnpc' = "ret"
    /\ UNCHANGED <<fncall, runVars>>

NextFn ==
    \/ CallDetectFileType
    \/ CallLoadFile
    \/ CallMinifyCss
    \/ CallHashFileRename

SpecFn == InitFn /\ [][NextFn]_vars

\* Both together: runs of process_directory and single applications.
InitAll == Init \/ InitFn

NextAll == Next \/ NextFn

SpecAll == InitAll /\ [][NextAll]_vars

---------------------------------------------------------------------------
(* What the claims speak of                                                *)

Succeeded == result.returned /\ result.ok
Failed == result.returned /\ ~result.ok

FileSteps == {"load", "transform", "hash", "write"}

\* The path as a string, the input root included.
FullPathString(p) == path_to_string_lossy(p)

\* The path as a string relative to the input root (a single component here).
RootRelativeString(p) == path_to_string_lossy(SubSeq(p, 2, Len(p)))

\* The bytes the pipeline is to produce for the input file p: minified for a
\* file whose extension is css, the bytes themselves otherwise.
TransformedContent(p) ==
    LET e == extension(p) IN
    IF e.some /\ e.v = "css" THEN to_css_code(infs[p].contents) ELSE infs[p].contents

Returned(fn) == fnpc = "ret" /\ fncall.fn = fn

---------------------------------------------------------------------------
\* C1: when the load, transform, hash/rename or write step of a file fails,
\* process_directory returns an error and this run writes no manifest.json;
\* write_manifest is reached (and a manifest is written) only when every
\* path the walker handed over, and so every regular file of the tree, was
\* processed and written without error.
C1_FailFastNoManifest ==
    /\ failedAt \in FileSteps =>
         /\ pc = "done"
         /\ Failed
         /\ manifestFile.written = "no"
    /\ (pc = "manifest" \/ manifestFile.written # "no") =>
         /\ failedAt \notin FileSteps
         /\ \A i \in DOMAIN called : called[i] \in saved
         /\ RegularFiles \subseteq saved

\* A second file's write failed after a first file had been written.
C1_Witness ==
    /\ pc = "done"
    /\ failedAt = "write"
    /\ saved # {}
    /\ manifestFile.written = "no"

---------------------------------------------------------------------------
\* C2 as stated: after a successful run the manifest has exactly one entry per
\* regular file, keyed by the file's root-relative path, none for a directory,
\* and as many entries as there are regular files.
C2_RootRelativeKeys ==
    (Succeeded /\ is_dir(root)) =>
        /\ DOMAIN manifestFile.map = {RootRelativeString(p) : p \in RegularFiles}
        /\ Cardinality(DOMAIN manifestFile.map) = Cardinality(RegularFiles)

\* C2 as amended: after a successful run the keys of the manifest are exactly
\* the full path strings (input root included, bytes that are not valid UTF-8
\* replaced by U+FFFD) of the regular files under the input root; no key is the
\* path of a directory; and there are as many entries as regular files when no
\* two files have the same full path string.
C2_FullPathKeys ==
    Succeeded =>
        /\ DOMAIN manifestFile.map = {FullPathString(p) : p \in RegularFiles}
        /\ \A p \in DOMAIN infs :
             infs[p].kind = "dir" => FullPathString(p) \notin DOMAIN manifestFile.map
        /\ (\A p, q \in RegularFiles : FullPathString(p) = FullPathString(q) => p = q)
             => Cardinality(DOMAIN manifestFile.map) = Cardinality(RegularFiles)

\* A successful run over two files, one of them in the sub-directory.
C2_Witness ==
    /\ Succeeded
    /\ Cardinality(RegularFiles) = 2
    /\ Cardinality(DOMAIN manifestFile.map) = 2
    /\ \E p \in RegularFiles : Len(p) = 3

---------------------------------------------------------------------------
\* C3: after a successful run, for every manifest entry (key, value) the file
\* value exists under the output root and holds the transformed content
\* (minified for CSS, identical otherwise) of an input file the key names, also
\* when several input files share one output name.
C3_OutputHoldsTransformedContent ==
    Succeeded =>
        \A k \in DOMAIN manifestFile.map :
            LET v == manifestFile.map[k] IN
            /\ v \in DOMAIN outfs
            /\ \E p \in RegularFiles :
                 /\ FullPathString(p) = k
                 /\ outfs[v] = TransformedContent(p)

\* A successful run in which two stylesheets, one of them changed by the
\* minifier, were written under the same output name.
C3_Witness ==
    /\ Succeeded
    /\ \E k1, k2 \in DOMAIN manifestFile.map :
         k1 # k2 /\ manifestFile.map[k1] = manifestFile.map[k2]
    /\ \E p \in RegularFiles : TransformedContent(p) # infs[p].contents

---------------------------------------------------------------------------
\* A path that names a file and has no extension ("README", ".bashrc").
NoExtension(path) == file_name(path).some /\ ~extension(path).some

\* C4 as stated: a path without extension loads as FileType Other, the
\* hash/rename step names it by the digest alone, and a run over a tree that
\* holds such a file does not fail on loading it for want of an extension and,
\* when nothing else fails, records a manifest entry for it.
C4_NoExtensionIsOther ==
    /\ (Returned("load_file") /\ NoExtension(fncall.path) /\ fncall.read.ok) =>
         (fnret.ok /\ fnret.val.file_type = "Other")
    /\ (Returned("hash_file_rename") /\ NoExtension(fncall.f.filename)) =>
         (fnret.ok /\ fnret.val.filename =
            Append(parent(fncall.f.filename).v, <<blake3_hex(fncall.f.contents)>>))
    /\ (pc = "done" /\ failedAt = "load" /\ NoExtension(cur)) =>
         result.err.detail # "InvalidInput"
    /\ (pc = "done" /\ failedAt = "none") =>
         \A p \in RegularFiles : FullPathString(p) \in DOMAIN manifest

\* C4 as amended: a path without extension fails loading and renaming.
\* load_file returns IOError(InvalidInput) for it whatever the read gives, and
\* hash_file_rename returns an InvalidInput error for a File whose path has
\* none; a run whose walk reaches such a file returns that error from the load
\* step, with no manifest entry for the file, nothing written for it and no
\* manifest.json; so no run over a tree that holds such a file succeeds.
C4_NoExtensionFails ==
    /\ (Returned("load_file") /\ NoExtension(fncall.path)) =>
         fnret = Err(IOError("InvalidInput"))
    /\ (Returned("hash_file_rename") /\ NoExtension(fncall.f.filename)) =>
         fnret = Err(IOError("InvalidInput"))
    /\ \A i \in DOMAIN called :
         NoExtension(called[i]) =>
            /\ i = Len(called)
            /\ pc \in {"load", "done"}
            /\ called[i] \notin saved
            /\ FullPathString(called[i]) \notin DOMAIN manifest
            /\ manifestFile.written = "no"
            /\ pc = "done" =>
                 /\ failedAt = "load"
                 /\ result = ReturnedErr(IOError("InvalidInput"))
    /\ Succeeded => \A p \in RegularFiles : ~NoExtension(p)

\* A run that wrote one file and then failed on a readable file without extension.
C4_Witness ==
    /\ pc = "done"
    /\ failedAt = "load"
    /\ called # <<>>
    /\ NoExtension(called[Len(called)])
    /\ called[Len(called)] \in RegularFiles
    /\ saved # {}

---------------------------------------------------------------------------
---------------------------------------------------------------------------
\* C6 as stated: when the root handed to the walker is not a directory, the
\* walk fails with a traversal error and the callback is invoked on no path.
C6_NoCallbackOnBadRoot ==
    ~is_dir(root) =>
        /\ called = <<>>
        /\ pc \notin {"load", "minify", "hash", "insert", "save", "manifest"}

\* C6 as amended: when the root handed to the walker is not a directory (a
\* regular file, or a path that does not exist), the walker reads no directory
\* and raises no traversal error: it invokes the callback exactly once, on the
\* root itself, and returns what the callback returns.  With process_file as
\* the callback a missing root fails in load_file with an I/O error.
C6_CallbackOnRootItself ==
    ~is_dir(root) =>
        /\ stack = <<>>
        /\ failedAt \notin {"read_dir", "read_dir entry"}
        /\ called \in {<<>>, <<root>>}
        /\ called = <<>> => (pc = "start" \/ (pc = "walk" /\ call = Some(root))
                              \/ failedAt = "create_dir_all")
        /\ (pc = "manifest" \/ Succeeded) => saved = {root}
        /\ (pc = "done" /\ root \notin DOMAIN infs /\ failedAt # "create_dir_all") =>
             /\ failedAt = "load"
             /\ Failed
             /\ result.err.kind = "IOError"

\* The callback ran on a root that does not exist and the run has returned.
C6_Witness ==
    /\ root \notin DOMAIN infs
    /\ called = <<root>>
    /\ pc = "done"
    /\ Failed

---------------------------------------------------------------------------
\* The table of the data model: css, js and the five image extensions, matched
\* by exact spelling; everything else is Other.
TypeOfExtension(ext) ==
    IF ext = "css" THEN "CSS"
    ELSE IF ext = "js" THEN "JS"
    ELSE IF ext = "webp" \/ ext = "jpg" \/ ext = "jpeg" \/ ext = "png" \/ ext = "avif"
         THEN "Image"
    ELSE "Other"

\* C7: detect_file_type maps every extension string by the table above, so
\* "CSS" and the other upper-case spellings give Other; and the file_type of a
\* File load_file returned, or that a run holds after loading, is the type of
\* its path's extension.
C7_TypeIsFunctionOfExtension ==
    /\ Returned("detect_file_type") =>
         (fnret \in FileTypes /\ fnret = TypeOfExtension(fncall.ext))
    /\ (Returned("load_file") /\ fnret.ok) =>
         fnret.val.file_type = TypeOfExtension(extension(fncall.path).v)
    /\ pc \in {"minify", "hash", "insert", "save"} =>
         file.file_type = TypeOfExtension(extension(cur).v)

\* detect_file_type("CSS") returned Other.
C7_Witness ==
    /\ Returned("detect_file_type")
    /\ fncall.ext = "CSS"
    /\ fnret = "Other"

---------------------------------------------------------------------------
\* C8: minify_css never changes filename or file_type; on a File of type
\* Image, JS or Other it succeeds and returns the File as it was; only a File
\* of type CSS comes back with other contents or as an error.
C8_OnlyCssIsTransformed ==
    Returned("minify_css") =>
        LET f == fncall.f IN
        /\ fnret.ok =>
             /\ fnret.val.filename = f.filename
             /\ fnret.val.file_type = f.file_type
        /\ f.file_type \in {"Image", "JS", "Other"} => fnret = Ok(f)
        /\ (~fnret.ok \/ fnret.val.contents # f.contents) => f.file_type = "CSS"

\* A File of type JS named main.css and holding a stylesheet came back unchanged.
C8_Witness ==
    /\ Returned("minify_css")
    /\ fncall.f.file_type = "JS"
    /\ fncall.f.filename = <<<<"main", "css">>>>
    /\ fncall.f.contents = CssRaw
    /\ fnret = Ok(fncall.f)

---------------------------------------------------------------------------
\* Why minify_css must fail on the contents of a CSS File, if it must.
FailureCause(bytes) ==
    IF ~from_utf8_ok(bytes) THEN "invalid utf-8"
    ELSE IF ~parse_ok(bytes) THEN "syntax"
    ELSE IF ~minify_ok(bytes) \/ ~to_css_ok(bytes) THEN "minifier"
    ELSE "none"

\* C9 as stated: the three causes of failure show as three error kinds, so
\* two CSS Files failing for different causes never fail with the same kind.
C9_ThreeDistinctKinds ==
    (Returned("minify_css") /\ fncall.f.file_type = "CSS" /\ ~fnret.ok) =>
        \A g \in Files :
            (g.file_type = "CSS" /\ FailureCause(g.contents) # "none"
               /\ FailureCause(g.contents) # FailureCause(fncall.f.contents))
            => minify_css(g).err.kind # fnret.err.kind

\* C9 as amended: for a CSS File the transformer surfaces two error kinds.
\* Content that is not valid UTF-8 and a syntax failure of valid text both give
\* ParsingError (they differ in the message only); a failure of the minifier
\* or printer on parsed input gives MinificationError; a File with none of the
\* three causes is returned.
C9_TwoKinds ==
    (Returned("minify_css") /\ fncall.f.file_type = "CSS") =>
        LET cause == FailureCause(fncall.f.contents) IN
        /\ cause = "none" <=> fnret.ok
        /\ cause \in {"invalid utf-8", "syntax"} =>
             (~fnret.ok /\ fnret.err.kind = "ParsingError")
        /\ cause = "minifier" =>
             (~fnret.ok /\ fnret.err.kind = "MinificationError")

\* A CSS File that is not valid UTF-8 failed with ParsingError.
C9_Witness ==
    /\ Returned("minify_css")
    /\ fncall.f.file_type = "CSS"
    /\ fncall.f.contents = BadUtf8
    /\ fnret = Err(ParsingError("invalid utf-8"))

---------------------------------------------------------------------------
\* C10: in every state of a run each key of the manifest accumulator belongs
\* to a file whose output was already written successfully, and the
\* accumulator has one entry per key of a successfully written file.
C10_EntryOnlyAfterWrite ==
    DOMAIN manifest = {FullPathString(p) : p \in saved}

---------------------------------------------------------------------------
\* The steps of the walk and of process_file that can return an error.
WalkSteps == FileSteps \cup {"read_dir", "read_dir entry"}

\* The name hash_file_rename gives the output of the input file p.
OutputName(p) == <<<<blake3_hex(TransformedContent(p)), extension(p).v>>>>

\* The error process_directory returns when `step` is the step that failed.
ReturnsErrorOf(step) ==
    CASE step = "read_dir" -> result = ReturnedErr(IOError("read_dir"))
      [] step = "read_dir entry" -> result = ReturnedErr(IOError("read_dir entry"))
      [] step = "load" ->
           /\ Failed
           /\ result.err.kind = "IOError"
           /\ result.err.detail \in {"InvalidInput", "PermissionDenied", "NotFound"}
      [] step = "transform" ->
           /\ Failed
           /\ result.err.kind = IF from_utf8_ok(file.contents) /\ parse_ok(file.contents)
                                THEN "MinificationError" ELSE "ParsingError"
      [] step = "hash" -> result = ReturnedErr(IOError("InvalidInput"))
      [] step = "write" -> result = ReturnedErr(IOError("write"))
      [] OTHER -> Failed

\* Nothing of the run moves: no file is loaded, transformed, hashed, entered
\* in the manifest or written, no directory is read, no manifest is written.
NothingFurther ==
    /\ pc' = pc
    /\ stack' = stack
    /\ call' = call
    /\ cur' = cur
    /\ file' = file
    /\ called' = called
    /\ saved' = saved
    /\ manifest' = manifest
    /\ outfs' = outfs
    /\ manifestFile' = manifestFile
    /\ result' = result
    /\ failedAt' = failedAt


\* What holds of the outputs in every state: each is on disk, and holds the
\* bytes written unless the write that failed went to the same name.
OutputsKeptButForFailedOverwrite ==
    \A p \in saved :
        /\ OutputName(p) \in DOMAIN outfs
        /\ \/ outfs[OutputName(p)] = TransformedContent(p)
           \/ /\ failedAt = "write"
              /\ file.filename = OutputName(p)
              /\ OutputName(cur) = OutputName(p)
              /\ outfs[OutputName(p)] = PartialBytes

\* Once a step of the walk has failed the run has returned that step's error.
ReturnedFirstError ==
    failedAt \in WalkSteps =>
        /\ pc = "done"
        /\ stack = <<>>
        /\ call = None
        /\ manifestFile.written = "no"
        /\ ReturnsErrorOf(failedAt)

\* C11 as stated: once a step of the walk has failed the run has stopped and
\* returned that error, and the output of every file that was written
\* successfully is on disk with the bytes that were written.
C11_EarlierOutputsUnchanged ==
    /\ ReturnedFirstError
    /\ \A p \in saved :
          /\ OutputName(p) \in DOMAIN outfs
          /\ outfs[OutputName(p)] = TransformedContent(p)

\* C11 as amended: once a file's processing or a directory read has returned
\* an error, no further file is loaded, transformed, hashed or written and no
\* further directory is read at any level of the walk; process_directory has
\* returned that first error; no output file is ever removed, and the output
\* of every earlier file keeps its bytes, except that a failed write to a name
\* an earlier file already has (same transformed content and extension) may
\* leave that one file partly written.
C11_FailFastNoRollback ==
    /\ [](ReturnedFirstError /\ OutputsKeptButForFailedOverwrite)
    /\ [][(failedAt # "none" => NothingFurther)
          /\ (DOMAIN outfs \subseteq DOMAIN outfs')
          /\ (failedAt = "none" /\ failedAt' \in WalkSteps /\ failedAt' # "write"
                => outfs' = outfs)]_vars

\* A directory read failed below the root after a file had been written, with
\* a regular file of the tree never handed to the callback.
C11_Witness ==
    /\ pc = "done"
    /\ failedAt \in {"read_dir", "read_dir entry"}
    /\ saved # {}
    /\ \A p \in saved : outfs[OutputName(p)] = TransformedContent(p)
    /\ \E p \in RegularFiles : \A i \in DOMAIN called : called[i] # p

====
